---- MODULE Spec2Model ----
(***************************************************************************)
(* Model of src/src/signing.ts: the APK pipeline (zipalign check, cp,      *)
(* apksigner sign, apksigner verify) and the AAB pipeline (jarsigner).     *)
(*                                                                         *)
(* Strings are sequences of atoms.  File paths are written character by    *)
(* character, so that String.prototype.replace('.apk', ...) is modelled    *)
(* on the characters it works on.  Every other piece of text (a flag, a    *)
(* password, a message) is one opaque atom; no opaque atom is a single     *)
(* character, so a match of '.apk' is always a match inside a path.        *)
(***************************************************************************)
EXTENDS Integers, Sequences, FiniteSets, TLC

VARIABLES
    pc,              \* position of the single thread of control
    env,             \* process.env, the action input, the file system, PATH
    call,            \* arguments of the invocation in progress (or last made)
    buildToolsPath,  \* signApkFile: const buildToolsPath
    alignedApkFile,  \* signApkFile: const alignedApkFile
    signedApkFile,   \* signApkFile: const signedApkFile
    jarSignerPath,   \* signAabFile: const jarSignerPath
    procs,           \* external processes spawned by this invocation, in order
    error,           \* the error caught by the invocation's catch block
    outcome,         \* how the invocation ended: returned a path / threw
    setFailedMsgs,   \* arguments of core.setFailed made by this invocation
    exitCode,        \* process.exitCode (core.setFailed sets it to 1)
    nCalls,          \* invocations finished in this run
    nFailed,         \* invocations of this run that ended by throwing
    nSetFailed       \* calls of core.setFailed in this run

vars == <<pc, env, call, buildToolsPath, alignedApkFile, signedApkFile,
          jarSignerPath, procs, error, outcome, setFailedMsgs, exitCode,
          nCalls, nFailed, nSetFailed>>

\* Number of signApkFile / signAabFile invocations made in one run.
MaxCalls == 2

----------------------------------------------------------------------------
(* JavaScript values *)

\* The value undefined (an absent optional argument, an unset env variable).
Undefined == <<"<undefined>">>

\* JS truthiness of a string | undefined: undefined and '' are falsy.
Truthy(s) == s # Undefined /\ s # <<>>

\* a || b
OrElse(a, b) == IF Truthy(a) THEN a ELSE b

\* s.indexOf(pat), 1-based; 0 when pat does not occur.
IndexOf(s, pat) ==
    LET At(i) == SubSeq(s, i, i + Len(pat) - 1) = pat
        Hits == {i \in 1..(Len(s) - Len(pat) + 1) : At(i)}
    IN  IF Hits = {} THEN 0
        ELSE CHOOSE i \in Hits : \A j \in Hits : i <= j

\* s.replace(pat, repl) with a string pattern: the FIRST occurrence only.
StringReplace(s, pat, repl) ==
    LET i == IndexOf(s, pat)
    IN  IF i = 0 THEN s
        ELSE SubSeq(s, 1, i - 1) \o repl \o SubSeq(s, i + Len(pat), Len(s))

\* path.normalize on the part that matters here: runs of '/' collapse.
RECURSIVE NormalizePath(_)
NormalizePath(p) ==
    IF Len(p) < 2 THEN p
    ELSE IF p[1] = "/" /\ p[2] = "/" THEN NormalizePath(Tail(p))
    ELSE <<p[1]>> \o NormalizePath(Tail(p))

\* path.join(a, b): joined with '/', then normalized; empty parts are skipped.
PathJoin(a, b) ==
    IF a = <<>> THEN NormalizePath(b)
    ELSE NormalizePath(a \o <<"/">> \o b)

----------------------------------------------------------------------------
(* Text literals of signing.ts *)

DotApk        == <<".", "a", "p", "k">>
AlignedSuffix == <<"-", "a", "l", "i", "g", "n", "e", "d", ".", "a", "p", "k">>
SignedSuffix  == <<"-", "s", "i", "g", "n", "e", "d", ".", "a", "p", "k">>

DefaultBuildToolsVersion == <<"35.0.0">>

ApkFailurePrefix == <<"Failed to sign APK file: ">>
AabFailurePrefix == <<"Failed to sign AAB file: ">>

NoError == [name |-> "none", message |-> <<>>]

AndroidHomeNotSetError ==
    [name |-> "Error",
     message |-> <<"ANDROID_HOME environment variable is not set.">>]

BuildToolsNotFoundError(path) ==
    [name |-> "Error",
     message |-> <<"Couldn't find the Android build tools @ ">> \o path]

\* exec.exec rejects when the process exits non-zero.
ExecError(cmd) ==
    [name |-> "Error",
     message |-> <<"The process '">> \o cmd \o <<"' failed with exit code 1">>]

\* io.which(tool, true) throws when the tool is not on PATH.
WhichError ==
    [name |-> "Error",
     message |-> <<"Unable to locate executable file: jarsigner.">>]

----------------------------------------------------------------------------
(* Inputs *)

ApkFiles ==
    { <<"f", ".", "a", "p", "k">>,                                \* f.apk
      <<"d", "/", "f", ".", "a", "p", "k">>,                      \* d/f.apk
      <<"d", ".", "a", "p", "k", "/", "f", ".", "a", "p", "k">>,  \* d.apk/f.apk
      <<"f", ".", "a", "p", "k", ".", "a", "p", "k">>,            \* f.apk.apk
      <<"d", "/", "f", ".", "A", "P", "K">> }                     \* d/f.APK

AabFiles ==
    { <<"b", ".", "a", "a", "b">>,                                \* b.aab
      <<"d", ".", "a", "p", "k", "/", "b", ".", "a", "a", "b">> } \* d.apk/b.aab

KeyFiles          == { <<"signingKey.jks">> }
Aliases           == { <<"test_key">>, <<"other_key">> }
KeyStorePasswords == { <<"android">> }
KeyPasswords      == { Undefined, <<>>, <<"secret">> }

AndroidHomes  == { Undefined, <<>>, <<"/", "sdk">>, <<"/", "sdk", "/">> }
InputVersions == { <<>>, <<"34.0.0">> }              \* core.getInput: '' if unset
EnvVersions   == { Undefined, <<>>, <<"33.0.2">> }   \* process.env.*
Versions      == { <<"34.0.0">>, <<"33.0.2">>, DefaultBuildToolsVersion }

BuildToolsDirs ==
    { <<"/", "sdk", "/", "build-tools", "/">> \o v : v \in Versions }

JarSignerOnPath == <<"/usr/bin/jarsigner">>

Envs ==
    [ androidHome   : AndroidHomes,
      inputVersion  : InputVersions,
      envVersion    : EnvVersions,
      dirs          : SUBSET BuildToolsDirs,   \* directories that exist
      jarsigner     : BOOLEAN ]                \* jarsigner is on PATH

NoCall == [fn |-> "none", file |-> <<>>, signingKeyFile |-> <<>>,
           alias |-> <<>>, keyStorePassword |-> <<>>, keyPassword |-> Undefined]

NoOutcome == [kind |-> "none", value |-> <<>>, error |-> NoError]

----------------------------------------------------------------------------
Init ==
    /\ pc = "idle"
    /\ env \in Envs
    /\ call = NoCall
    /\ buildToolsPath = Undefined
    /\ alignedApkFile = Undefined
    /\ signedApkFile = Undefined
    /\ jarSignerPath = Undefined
    /\ procs = <<>>
    /\ error = NoError
    /\ outcome = NoOutcome
    /\ setFailedMsgs = <<>>
    /\ exitCode = 0
    /\ nCalls = 0
    /\ nFailed = 0
    /\ nSetFailed = 0

----------------------------------------------------------------------------
(* Pure parts of the handlers *)

\* Variant: the environment variable is consulted before the action input.
ResolveBuildToolsVersionEnvFirst(input, envVar) ==
    OrElse(OrElse(envVar, input), DefaultBuildToolsVersion)

\* getBuildToolsPath: input || env variable || default.
ResolveBuildToolsVersion(input, envVar) ==
    OrElse(OrElse(input, envVar), DefaultBuildToolsVersion)

\* Variant: only the empty string is rejected (if (androidHome === '')).
AndroidHomeEmpty(home) == home = <<>>

\* getBuildToolsPath: if (!androidHome)
AndroidHomeMissing(home) == ~Truthy(home)

\* getBuildToolsPath: path.join(androidHome, `build-tools/${buildToolsVersion}`)
BuildToolsDir(home, version) ==
    PathJoin(home, <<"build-tools", "/">> \o version)

\* fs.existsSync(path)
ExistsSync(path) == path \in env.dirs

\* path.join(buildToolsPath, 'zipalign'), path.join(buildToolsPath, 'apksigner')
ToolPath(dir, tool) == PathJoin(dir, <<tool>>)

\* alignApkFile: apkFile.replace('.apk', '-aligned.apk')
AlignedFileName(apkFile) == StringReplace(apkFile, DotApk, AlignedSuffix)

\* Variant: zipalign without the check flag.
ZipAlignArgsNoCheck(apkFile) == << <<"-v">>, <<"4">>, apkFile >>

\* alignApkFile: the zipalign argument list
ZipAlignArgs(apkFile) == << <<"-c">>, <<"-v">>, <<"4">>, apkFile >>

\* alignApkFile: the cp argument list
CopyArgs(apkFile, alignedFile) == << apkFile, alignedFile >>

\* Variant: the signed name is derived from the file handed to the signer.
SignedFileNameFromInput(originalFile, fileToSign, fileExtension) ==
    StringReplace(fileToSign, DotApk, fileExtension)

\* signFile: originalFile.replace('.apk', fileExtension)
SignedFileName(originalFile, fileToSign, fileExtension) ==
    StringReplace(originalFile, DotApk, fileExtension)

\* Variant: keyPassword !== undefined ? [...] : []
KeyPassDefined(keyPassword) == keyPassword # Undefined

\* keyPassword ? [...] : []
KeyPassGiven(keyPassword) == Truthy(keyPassword)

\* signFile: the apksigner sign argument list
ApkSignerSignArgs(fileToSign, signingKeyFile, alias, keyStorePassword, keyPassword, signedFile) ==
    << <<"sign">>,
       <<"--ks">>, signingKeyFile,
       <<"--ks-key-alias">>, alias,
       <<"--ks-pass">>, <<"pass:">> \o keyStorePassword,
       <<"--out">>, signedFile >>
    \o (IF KeyPassGiven(keyPassword)
        THEN << <<"--key-pass">>, <<"pass:">> \o keyPassword >>
        ELSE <<>>)
    \o << fileToSign >>

\* verifySignedFile: the apksigner verify argument list
ApkSignerVerifyArgs(signedFile) == << <<"verify">>, signedFile >>

\* Variant: the alias is passed before the file.
JarSignerArgsAliasFirst(aabFile, signingKeyFile, alias, keyStorePassword, keyPassword) ==
    << <<"-keystore">>, signingKeyFile,
       <<"-storepass">>, keyStorePassword >>
    \o (IF Truthy(keyPassword)
        THEN << <<"-keypass">>, keyPassword >>
        ELSE <<>>)
    \o << alias, aabFile >>

\* signAabFile: the jarsigner argument list
JarSignerArgs(aabFile, signingKeyFile, alias, keyStorePassword, keyPassword) ==
    << <<"-keystore">>, signingKeyFile,
       <<"-storepass">>, keyStorePassword >>
    \o (IF KeyPassGiven(keyPassword)
        THEN << <<"-keypass">>, keyPassword >>
        ELSE <<>>)
    \o << aabFile, alias >>

\* Variant: exec.exec called with ignoreReturnCode, never rejecting.
ExecIgnoresReturnCode(code) == FALSE

\* await exec.exec(...): rejects on a non-zero exit code.
ExecRejects(code) == code # 0

\* Variant: the message of the caught error is left out.
FailureMessagePrefixOnly(prefix, err) == prefix

\* `Failed to sign ... file: ${(error as Error).message}`
FailureMessage(prefix, err) == prefix \o err.message

\* signAabFile: return aabFile
AabReturnValue(aabFile) == aabFile

ExitCodes == {0, 1}

----------------------------------------------------------------------------
(* Steps shared by the handlers *)

\* exec.exec starts the process cmd with args and awaits it at position wait.
Spawn(cmd, args, wait) ==
    /\ procs' = Append(procs, [cmd |-> cmd, args |-> args, status |-> "running"])
    /\ pc' = wait

\* The awaited process exits with code: the await resolves and control goes
\* to ok, or it rejects and control goes to the catch block at catch.
Exit(code, ok, catch) ==
    /\ procs' = [procs EXCEPT ![Len(procs)].status =
                    IF code = 0 THEN "ok" ELSE "failed"]
    /\ IF ExecRejects(code)
       THEN /\ error' = ExecError(procs[Len(procs)].cmd)
            /\ pc' = catch
       ELSE /\ error' = error
            /\ pc' = ok

\* return value: the invocation ends, the caller goes on.
Return(value) ==
    /\ outcome' = [kind |-> "returned", value |-> value, error |-> NoError]
    /\ pc' = "idle"
    /\ nCalls' = nCalls + 1

\* catch (error) { core.setFailed(prefix + error.message); throw error; }
Catch(prefix) ==
    /\ setFailedMsgs' = Append(setFailedMsgs, FailureMessage(prefix, error))
    /\ exitCode' = 1
    /\ nSetFailed' = nSetFailed + 1
    /\ outcome' = [kind |-> "thrown", value |-> <<>>, error |-> error]
    /\ pc' = "idle"
    /\ nCalls' = nCalls + 1
    /\ nFailed' = nFailed + 1

\* A new invocation starts with fresh locals.
Enter(fn, file, signingKeyFile, alias, keyStorePassword, keyPassword, start) ==
    /\ pc = "idle"
    /\ nCalls < MaxCalls
    /\ call' = [fn |-> fn, file |-> file, signingKeyFile |-> signingKeyFile,
                alias |-> alias, keyStorePassword |-> keyStorePassword,
                keyPassword |-> keyPassword]
    /\ pc' = start
    /\ buildToolsPath' = Undefined
    /\ alignedApkFile' = Undefined
    /\ signedApkFile' = Undefined
    /\ jarSignerPath' = Undefined
    /\ procs' = <<>>
    /\ error' = NoError
    /\ outcome' = NoOutcome
    /\ setFailedMsgs' = <<>>
    /\ UNCHANGED <<env, exitCode, nCalls, nFailed, nSetFailed>>

----------------------------------------------------------------------------
(* signApkFile *)

SignApkFile ==
    \E apkFile \in ApkFiles, signingKeyFile \in KeyFiles, alias \in Aliases,
       keyStorePassword \in KeyStorePasswords, keyPassword \in KeyPasswords :
        Enter("signApkFile", apkFile, signingKeyFile, alias, keyStorePassword,
              keyPassword, "apk_getBuildToolsPath")

\* const buildToolsPath = getBuildToolsPath();
GetBuildToolsPath ==
    /\ pc = "apk_getBuildToolsPath"
    /\ LET buildToolsVersion ==
               ResolveBuildToolsVersion(env.inputVersion, env.envVersion)
           androidHome == env.androidHome
           path == BuildToolsDir(androidHome, buildToolsVersion)
       IN  IF AndroidHomeMissing(androidHome)
           THEN /\ error' = AndroidHomeNotSetError
                /\ pc' = "apk_catch"
                /\ UNCHANGED buildToolsPath
           ELSE IF ~ExistsSync(path)
           THEN /\ error' = BuildToolsNotFoundError(path)
                /\ pc' = "apk_catch"
                /\ UNCHANGED buildToolsPath
           ELSE /\ buildToolsPath' = path
                /\ pc' = "apk_zipalign"
                /\ UNCHANGED error
    /\ UNCHANGED <<env, call, alignedApkFile, signedApkFile, jarSignerPath,
                   procs, outcome, setFailedMsgs, exitCode, nCalls, nFailed,
                   nSetFailed>>

\* alignApkFile: name the aligned file, start zipalign -c -v 4 apkFile
ZipAlignStart ==
    /\ pc = "apk_zipalign"
    /\ alignedApkFile' = AlignedFileName(call.file)
    /\ Spawn(ToolPath(buildToolsPath, "zipalign"), ZipAlignArgs(call.file),
             "apk_zipalign_wait")
    /\ UNCHANGED <<env, call, buildToolsPath, signedApkFile, jarSignerPath,
                   error, outcome, setFailedMsgs, exitCode, nCalls, nFailed,
                   nSetFailed>>

ZipAlignExit ==
    /\ pc = "apk_zipalign_wait"
    /\ \E code \in ExitCodes : Exit(code, "apk_cp", "apk_catch")
    /\ UNCHANGED <<env, call, buildToolsPath, alignedApkFile, signedApkFile,
                   jarSignerPath, outcome, setFailedMsgs, exitCode, nCalls,
                   nFailed, nSetFailed>>

\* alignApkFile: cp apkFile alignedApkFile
CopyStart ==
    /\ pc = "apk_cp"
    /\ Spawn(<<"cp">>, CopyArgs(call.file, alignedApkFile), "apk_cp_wait")
    /\ UNCHANGED <<env, call, buildToolsPath, alignedApkFile, signedApkFile,
                   jarSignerPath, error, outcome, setFailedMsgs, exitCode,
                   nCalls, nFailed, nSetFailed>>

CopyExit ==
    /\ pc = "apk_cp_wait"
    /\ \E code \in ExitCodes : Exit(code, "apk_sign", "apk_catch")
    /\ UNCHANGED <<env, call, buildToolsPath, alignedApkFile, signedApkFile,
                   jarSignerPath, outcome, setFailedMsgs, exitCode, nCalls,
                   nFailed, nSetFailed>>

\* signFile(apkSigner, alignedApkFile, ..., apkFile, '-signed.apk')
SignStart ==
    /\ pc = "apk_sign"
    /\ LET signedFile == SignedFileName(call.file, alignedApkFile, SignedSuffix)
       IN  /\ signedApkFile' = signedFile
           /\ Spawn(ToolPath(buildToolsPath, "apksigner"),
                    ApkSignerSignArgs(alignedApkFile, call.signingKeyFile,
                                      call.alias, call.keyStorePassword,
                                      call.keyPassword, signedFile),
                    "apk_sign_wait")
    /\ UNCHANGED <<env, call, buildToolsPath, alignedApkFile, jarSignerPath,
                   error, outcome, setFailedMsgs, exitCode, nCalls, nFailed,
                   nSetFailed>>

SignExit ==
    /\ pc = "apk_sign_wait"
    /\ \E code \in ExitCodes : Exit(code, "apk_verify", "apk_catch")
    /\ UNCHANGED <<env, call, buildToolsPath, alignedApkFile, signedApkFile,
                   jarSignerPath, outcome, setFailedMsgs, exitCode, nCalls,
                   nFailed, nSetFailed>>

\* verifySignedFile(apkSigner, signedApkFile)
VerifyStart ==
    /\ pc = "apk_verify"
    /\ Spawn(ToolPath(buildToolsPath, "apksigner"),
             ApkSignerVerifyArgs(signedApkFile), "apk_verify_wait")
    /\ UNCHANGED <<env, call, buildToolsPath, alignedApkFile, signedApkFile,
                   jarSignerPath, error, outcome, setFailedMsgs, exitCode,
                   nCalls, nFailed, nSetFailed>>

VerifyExit ==
    /\ pc = "apk_verify_wait"
    /\ \E code \in ExitCodes : Exit(code, "apk_return", "apk_catch")
    /\ UNCHANGED <<env, call, buildToolsPath, alignedApkFile, signedApkFile,
                   jarSignerPath, outcome, setFailedMsgs, exitCode, nCalls,
                   nFailed, nSetFailed>>

\* return signedApkFile;
SignApkFileReturn ==
    /\ pc = "apk_return"
    /\ Return(signedApkFile)
    /\ UNCHANGED <<env, call, buildToolsPath, alignedApkFile, signedApkFile,
                   jarSignerPath, procs, error, setFailedMsgs, exitCode,
                   nFailed, nSetFailed>>

\* catch (error) { core.setFailed(...); throw error; }
SignApkFileCatch ==
    /\ pc = "apk_catch"
    /\ Catch(ApkFailurePrefix)
    /\ UNCHANGED <<env, call, buildToolsPath, alignedApkFile, signedApkFile,
                   jarSignerPath, procs, error>>

----------------------------------------------------------------------------
(* signAabFile *)

SignAabFile ==
    \E aabFile \in AabFiles, signingKeyFile \in KeyFiles, alias \in Aliases,
       keyStorePassword \in KeyStorePasswords, keyPassword \in KeyPasswords :
        Enter("signAabFile", aabFile, signingKeyFile, alias, keyStorePassword,
              keyPassword, "aab_which")

\* const jarSignerPath = await io.which('jarsigner', true);
Which ==
    /\ pc = "aab_which"
    /\ IF env.jarsigner
       THEN /\ jarSignerPath' = JarSignerOnPath
            /\ pc' = "aab_jarsigner"
            /\ UNCHANGED error
       ELSE /\ error' = WhichError
            /\ pc' = "aab_catch"
            /\ UNCHANGED jarSignerPath
    /\ UNCHANGED <<env, call, buildToolsPath, alignedApkFile, signedApkFile,
                   procs, outcome, setFailedMsgs, exitCode, nCalls, nFailed,
                   nSetFailed>>

\* await exec.exec(`"${jarSignerPath}"`, args);
JarSignerStart ==
    /\ pc = "aab_jarsigner"
    /\ Spawn(jarSignerPath,
             JarSignerArgs(call.file, call.signingKeyFile, call.alias,
                           call.keyStorePassword, call.keyPassword),
             "aab_jarsigner_wait")
    /\ UNCHANGED <<env, call, buildToolsPath, alignedApkFile, signedApkFile,
                   jarSignerPath, error, outcome, setFailedMsgs, exitCode,
                   nCalls, nFailed, nSetFailed>>

JarSignerExit ==
    /\ pc = "aab_jarsigner_wait"
    /\ \E code \in ExitCodes : Exit(code, "aab_return", "aab_catch")
    /\ UNCHANGED <<env, call, buildToolsPath, alignedApkFile, signedApkFile,
                   jarSignerPath, outcome, setFailedMsgs, exitCode, nCalls,
                   nFailed, nSetFailed>>

\* return aabFile;
SignAabFileReturn ==
    /\ pc = "aab_return"
    /\ Return(AabReturnValue(call.file))
    /\ UNCHANGED <<env, call, buildToolsPath, alignedApkFile, signedApkFile,
                   jarSignerPath, procs, error, setFailedMsgs, exitCode,
                   nFailed, nSetFailed>>

SignAabFileCatch ==
    /\ pc = "aab_catch"
    /\ Catch(AabFailurePrefix)
    /\ UNCHANGED <<env, call, buildToolsPath, alignedApkFile, signedApkFile,
                   jarSignerPath, procs, error>>

----------------------------------------------------------------------------
Next ==
    \/ SignApkFile
    \/ GetBuildToolsPath
    \/ ZipAlignStart
    \/ ZipAlignExit
    \/ CopyStart
    \/ CopyExit
    \/ SignStart
    \/ SignExit
    \/ VerifyStart
    \/ VerifyExit
    \/ SignApkFileReturn
    \/ SignApkFileCatch
    \/ SignAabFile
    \/ Which
    \/ JarSignerStart
    \/ JarSignerExit
    \/ SignAabFileReturn
    \/ SignAabFileCatch

Spec == Init /\ [][Next]_vars

----------------------------------------------------------------------------
(* Vocabulary of the properties *)

InApk == call.fn = "signApkFile"
InAab == call.fn = "signAabFile"
Ended == pc = "idle" /\ call.fn # "none"

Last(s) == s[Len(s)]
EndsWith(s, suffix) ==
    Len(s) >= Len(suffix) /\ SubSeq(s, Len(s) - Len(suffix) + 1, Len(s)) = suffix
Contains(s, sub) == IndexOf(s, sub) # 0

IsZipAlign(p)  == Last(p.cmd) = "zipalign"
IsCopy(p)      == p.cmd = <<"cp">>
IsApkSigner(p) == Last(p.cmd) = "apksigner"
IsSign(p)      == IsApkSigner(p) /\ p.args[1] = <<"sign">>
IsVerify(p)    == IsApkSigner(p) /\ p.args[1] = <<"verify">>
IsJarSigner(p) == p.cmd = JarSignerOnPath

Running == {i \in 1..Len(procs) : procs[i].status = "running"}
Failed  == {i \in 1..Len(procs) : procs[i].status = "failed"}
AllOk   == \A i \in 1..Len(procs) : procs[i].status = "ok"

\* flag immediately followed by value
PairAt(args, flag, value) ==
    \E i \in 1..(Len(args) - 1) : args[i] = flag /\ args[i + 1] = value
HasArg(args, flag) == \E i \in 1..Len(args) : args[i] = flag
\* the value that follows flag
ValueOf(args, flag) == args[IndexOf(args, <<flag>>) + 1]
\* args with flag and the value after it taken out
WithoutPair(args, flag) ==
    LET i == IndexOf(args, <<flag>>)
    IN  IF i = 0 THEN args
        ELSE SubSeq(args, 1, i - 1) \o SubSeq(args, i + 2, Len(args))

\* <dir>/<name>.apk with the extension replaced by suffix
ReplaceExtension(path, suffix) ==
    SubSeq(path, 1, Len(path) - Len(DotApk)) \o suffix

----------------------------------------------------------------------------
(* C1: in one signApkFile invocation the processes are started in the order
   zipalign -c -v 4 <apkFile>, cp <apkFile> <alignedFile>, apksigner sign,
   apksigner verify; each is started only after the one before it exited with
   status zero; at most one is running; zipalign runs in check mode only. *)
C1_StagesInOrder ==
    InApk =>
      /\ Len(procs) <= 4
      /\ \A i \in 1..Len(procs) :
           /\ i = 1 => /\ IsZipAlign(procs[i])
                       /\ procs[i].args = << <<"-c">>, <<"-v">>, <<"4">>, call.file >>
           /\ i = 2 => /\ IsCopy(procs[i])
                       /\ procs[i].args = << call.file, alignedApkFile >>
           /\ i = 3 => IsSign(procs[i])
           /\ i = 4 => IsVerify(procs[i])
           /\ i < Len(procs) => procs[i].status = "ok"
           /\ IsZipAlign(procs[i]) => procs[i].args[1] = <<"-c">>
      /\ Cardinality(Running) <= 1

C1_Witness ==
    InApk /\ Len(procs) = 4 /\ procs[4].status = "ok" /\ IsVerify(procs[4])

(* C2: when an external invocation of signApkFile fails, no later stage is
   started, no stage is invoked twice, and signApkFile ends by throwing; it
   returns a path only when all four invocations, verify included, exited
   with status zero. *)
C2_FailureAborts ==
    InApk =>
      /\ \A i \in Failed :
           /\ i = Len(procs)
           /\ pc \in {"apk_catch", "idle"}
      /\ \A i, j \in 1..Len(procs) :
           i # j => ~(procs[i].cmd = procs[j].cmd /\ procs[i].args = procs[j].args)
      /\ (Failed # {} /\ Ended) => outcome.kind = "thrown"
      /\ outcome.kind = "returned" =>
           /\ Len(procs) = 4
           /\ AllOk
           /\ IsVerify(procs[4])

C2_Witness ==
    /\ InApk /\ Ended /\ outcome.kind = "thrown"
    /\ Len(procs) = 4 /\ procs[4].status = "failed"

(* C3: the apksigner sign arguments hold the pair --key-pass pass:<keyPassword>,
   and the jarsigner arguments the pair -keypass <keyPassword>, exactly when a
   key password was supplied (a non-empty string: the empty string is what an
   unset action input reads as); otherwise the flag is absent, and it is never
   passed with an empty value.  With the pair taken out, the arguments are
   those of the invocation without a key password. *)
C3_KeyPassFlag ==
    /\ InApk => \A i \in 1..Len(procs) : IsSign(procs[i]) =>
         LET a == procs[i].args
             keyPassword == call.keyPassword
         IN  /\ PairAt(a, <<"--key-pass">>, <<"pass:">> \o keyPassword)
                  <=> Truthy(keyPassword)
             /\ ~Truthy(keyPassword) => ~HasArg(a, <<"--key-pass">>)
             /\ ~PairAt(a, <<"--key-pass">>, <<"pass:">>)
             /\ WithoutPair(a, <<"--key-pass">>) =
                  ApkSignerSignArgs(alignedApkFile, call.signingKeyFile,
                                    call.alias, call.keyStorePassword,
                                    Undefined, signedApkFile)
    /\ InAab => \A i \in 1..Len(procs) :
         LET a == procs[i].args
             keyPassword == call.keyPassword
         IN  /\ PairAt(a, <<"-keypass">>, keyPassword) <=> Truthy(keyPassword)
             /\ ~Truthy(keyPassword) => ~HasArg(a, <<"-keypass">>)
             /\ ~PairAt(a, <<"-keypass">>, <<>>)
             /\ WithoutPair(a, <<"-keypass">>) =
                  JarSignerArgs(call.file, call.signingKeyFile, call.alias,
                                call.keyStorePassword, Undefined)

C3_Witness ==
    /\ InApk /\ Len(procs) >= 3 /\ IsSign(procs[3])
    /\ call.keyPassword = <<"secret">>
    /\ HasArg(procs[3].args, <<"--key-pass">>)

(* C4: for every input <dir>/<name>.apk the aligned path is <dir>/<name>-aligned.apk
   and the signed path, also the one returned, is <dir>/<name>-signed.apk, even
   when the directory or the base name contains '.apk'. *)
C4_DerivedNames ==
    (InApk /\ EndsWith(call.file, DotApk)) =>
      /\ alignedApkFile # Undefined =>
           alignedApkFile = ReplaceExtension(call.file, AlignedSuffix)
      /\ signedApkFile # Undefined =>
           signedApkFile = ReplaceExtension(call.file, SignedSuffix)
      /\ outcome.kind = "returned" =>
           outcome.value = ReplaceExtension(call.file, SignedSuffix)

(* C5 as stated: with ANDROID_HOME unset, signApkFile and signAabFile both fail
   with 'ANDROID_HOME environment variable is not set.' and spawn nothing. *)
C5_AnyRunFailsWithoutAndroidHome ==
    (env.androidHome = Undefined /\ call.fn # "none") =>
      /\ procs = <<>>
      /\ outcome.kind # "returned"
      /\ Ended => /\ outcome.kind = "thrown"
                  /\ outcome.error = AndroidHomeNotSetError

(* C5 amended: with ANDROID_HOME unset, signApkFile fails with
   'ANDROID_HOME environment variable is not set.' and spawns no process. *)
C5_ApkFailsWithoutAndroidHome ==
    (env.androidHome = Undefined /\ InApk) =>
      /\ procs = <<>>
      /\ outcome.kind # "returned"
      /\ pc # "apk_getBuildToolsPath" => error = AndroidHomeNotSetError
      /\ Ended => /\ outcome.kind = "thrown"
                  /\ outcome.error = AndroidHomeNotSetError

C5_Witness ==
    /\ env.androidHome = Undefined /\ InApk /\ Ended
    /\ outcome.kind = "thrown"

\* The version C6 names: the input if set, else the env variable, else 35.0.0.
C6_Version ==
    IF Truthy(env.inputVersion) THEN env.inputVersion
    ELSE IF Truthy(env.envVersion) THEN env.envVersion
    ELSE <<"35.0.0">>

\* <ANDROID_HOME>/build-tools/<version>, as a normalized path
C6_Dir ==
    NormalizePath(env.androidHome \o <<"/", "build-tools", "/">> \o C6_Version)

(* C6: signApkFile uses the build-tools version input, else
   ANDROID_BUILD_TOOLS_VERSION, else 35.0.0; it checks the directory
   <ANDROID_HOME>/build-tools/<version>, and when that directory does not
   exist it fails with a message containing that path, spawning nothing. *)
C6_BuildToolsDir ==
    (InApk /\ Truthy(env.androidHome) /\ pc # "apk_getBuildToolsPath") =>
      /\ C6_Dir \in env.dirs => /\ buildToolsPath = C6_Dir
                                /\ procs # <<>> => IsZipAlign(procs[1])
      /\ C6_Dir \notin env.dirs =>
           /\ procs = <<>>
           /\ buildToolsPath = Undefined
           /\ error.name = "Error"
           /\ Contains(error.message, C6_Dir)
           /\ outcome.kind # "returned"
           /\ Ended => (outcome.kind = "thrown" /\ outcome.error = error)

C6_Witness ==
    /\ InApk /\ Truthy(env.androidHome) /\ Ended
    /\ Truthy(env.inputVersion) /\ Truthy(env.envVersion)
    /\ C6_Dir \notin env.dirs
    /\ outcome.kind = "thrown"

(* C7: signAabFile spawns at most one process, jarsigner with -keystore <keyFile>
   -storepass <password> [-keypass <keyPassword>] <aabFile> <alias>, and no
   zipalign, cp or apksigner; when it returns, jarsigner exited with zero and
   the value is the aabFile given; when jarsigner is not on PATH or exits
   non-zero it throws and returns no path. *)
C7_AabPipeline ==
    InAab =>
      /\ Len(procs) <= 1
      /\ \A i \in 1..Len(procs) :
           /\ IsJarSigner(procs[i])
           /\ ~IsZipAlign(procs[i]) /\ ~IsCopy(procs[i]) /\ ~IsApkSigner(procs[i])
           /\ LET head == << <<"-keystore">>, call.signingKeyFile,
                             <<"-storepass">>, call.keyStorePassword >>
                  tail == << call.file, call.alias >>
              IN  procs[i].args \in
                    { head \o tail,
                      head \o << <<"-keypass">>, call.keyPassword >> \o tail }
      /\ outcome.kind = "returned" =>
           /\ Len(procs) = 1
           /\ procs[1].status = "ok"
           /\ outcome.value = call.file
      /\ (~env.jarsigner /\ pc # "aab_which") =>
           /\ procs = <<>>
           /\ outcome.kind # "returned"
           /\ Ended => outcome.kind = "thrown"
      /\ Failed # {} =>
           /\ outcome.kind # "returned"
           /\ Ended => outcome.kind = "thrown"

C7_Witness ==
    InAab /\ outcome.kind = "returned" /\ Len(procs) = 1

(* C8: for every apkFile passed to signApkFile, the destination of cp and the
   --out target of apksigner sign differ from apkFile and from each other. *)
C8_OriginalNeverTarget ==
    InApk =>
      /\ \A i \in 1..Len(procs) : IsCopy(procs[i]) =>
           procs[i].args[2] # call.file
      /\ \A i \in 1..Len(procs) : IsSign(procs[i]) =>
           /\ ValueOf(procs[i].args, <<"--out">>) # call.file
           /\ ValueOf(procs[i].args, <<"--out">>) # alignedApkFile

(* C9: the run is marked failed exactly when an invocation failed; a failing
   invocation calls core.setFailed once, with its prefix followed by the
   message of the error it caught, and rethrows that error; a successful one
   never calls it; and after a recorded failure the next invocation still
   starts and runs its full pipeline. *)
C9_FailureReporting ==
    /\ nSetFailed = nFailed
    /\ (exitCode = 1) <=> (nFailed > 0)
    /\ outcome.kind = "thrown" =>
         /\ error.name = "Error"
         /\ outcome.error = error
         /\ setFailedMsgs =
              << (IF InApk THEN <<"Failed to sign APK file: ">>
                           ELSE <<"Failed to sign AAB file: ">>)
                 \o error.message >>
    /\ outcome.kind # "thrown" => setFailedMsgs = <<>>
    /\ (pc = "idle" /\ nCalls < MaxCalls) =>
         (ENABLED SignApkFile /\ ENABLED SignAabFile)
    /\ (exitCode = 1 /\ outcome.kind = "returned") =>
         /\ AllOk
         /\ Len(procs) = (IF InApk THEN 4 ELSE 1)

C9_Witness ==
    /\ nFailed = 1 /\ nCalls = 2 /\ exitCode = 1
    /\ outcome.kind = "returned" /\ InApk

(* C10: in signApkFile the file signed is the destination of the cp before it;
   the --out path is derived from the original apkFile, not from the aligned
   file; verify is run on that --out path; and that path is the value
   returned. *)
C10_PathFlow ==
    InApk =>
      /\ Len(procs) >= 3 =>
           LET out == ValueOf(procs[3].args, <<"--out">>)
               copied == procs[2].args[2]
           IN  /\ Last(procs[3].args) = copied
               /\ out = StringReplace(call.file, DotApk, SignedSuffix)
               /\ Contains(call.file, DotApk) =>
                    out # StringReplace(copied, DotApk, SignedSuffix)
               /\ Len(procs) >= 4 => procs[4].args = << <<"verify">>, out >>
               /\ outcome.kind = "returned" => outcome.value = out
      /\ outcome.kind = "returned" => Len(procs) >= 3

C10_Witness ==
    /\ InApk /\ outcome.kind = "returned"
    /\ Contains(call.file, DotApk)
    /\ Len(procs) = 4

====
